---- MODULE Spec2Model ----
(***************************************************************************)
(* Model of src/app.py: the visit scheduler (holiday calendar, window      *)
(* policy, slot grid, overlap/capacity accounting, and the booking form's  *)
(* read / check / insert confirmation against the shared bookings table).  *)
(*                                                                         *)
(* Conventions: a datetime.date is a record [year, month, day]; a          *)
(* datetime.time is the number of minutes since midnight (the program only *)
(* builds times with zero seconds); the text forms the program sends to    *)
(* and reads from the table are tuples of their fields: "YYYY-MM-DD" is    *)
(* <<y, m, d>>, "HH:MM:SS" is <<h, m, s>>, "HH:MM" is <<h, m>>.            *)
(***************************************************************************)
EXTENDS Integers, Sequences, FiniteSets, TLC

VARIABLES bookings, sess, hcall, scall, ccall

vars == <<bookings, sess, hcall, scall, ccall>>

(***************************************************************************)
(* Configuration (src/app.py:15-21)                                        *)
(***************************************************************************)
SLOT_STEP_MIN == 30

DEFAULT_DURATION == 30

PARTY_CAPACITY == 2

time(h, m) == h * 60 + m

WEEKDAY_WINDOWS == << <<time(16, 30), time(21, 0)>> >>

WEEKEND_WINDOWS == << >>

(***************************************************************************)
(* datetime.date arithmetic used by the program                            *)
(***************************************************************************)
date(y, m, d) == [year |-> y, month |-> m, day |-> d]

IsLeap(y) == (y % 4 = 0) /\ ((y % 100 # 0) \/ (y % 400 = 0))

DaysInMonth(y, m) ==
    IF m = 2 THEN (IF IsLeap(y) THEN 29 ELSE 28)
    ELSE IF m \in {4, 6, 9, 11} THEN 30 ELSE 31

RECURSIVE DaysBeforeMonth(_, _)
DaysBeforeMonth(y, m) ==
    IF m = 1 THEN 0 ELSE DaysBeforeMonth(y, m - 1) + DaysInMonth(y, m - 1)

\* date.toordinal(): proleptic Gregorian ordinal, 0001-01-01 is day 1
toordinal(d) ==
    LET y1 == d.year - 1
    IN  y1 * 365 + (y1 \div 4) - (y1 \div 100) + (y1 \div 400)
        + DaysBeforeMonth(d.year, d.month) + d.day

\* date.weekday(): Monday is 0, Sunday is 6
weekday(d) == (toordinal(d) + 6) % 7

\* Carries a day number outside 1..DaysInMonth into the neighbouring months
RECURSIVE NormalizeDate(_, _, _)
NormalizeDate(y, m, d) ==
    IF d > DaysInMonth(y, m)
    THEN (IF m < 12 THEN NormalizeDate(y, m + 1, d - DaysInMonth(y, m))
          ELSE NormalizeDate(y + 1, 1, d - DaysInMonth(y, m)))
    ELSE IF d < 1
    THEN (IF m > 1 THEN NormalizeDate(y, m - 1, d + DaysInMonth(y, m - 1))
          ELSE NormalizeDate(y - 1, 12, d + 31))
    ELSE date(y, m, d)

\* d + timedelta(days=n), n of either sign
PlusDays(d, n) == NormalizeDate(d.year, d.month, d.day + n)

\* d1 <= d2 on dates
DateLeq(d1, d2) ==
    \/ d1.year < d2.year
    \/ d1.year = d2.year /\ d1.month < d2.month
    \/ d1.year = d2.year /\ d1.month = d2.month /\ d1.day <= d2.day

(***************************************************************************)
(* Holiday calendar (src/app.py:27-72)                                     *)
(***************************************************************************)
\* faulty variant of _easter_date: the day residue taken from 113, not 114
_easter_date_wrong(year) ==
    LET a == year % 19
        b == year \div 100
        c == year % 100
        d == b \div 4
        e == b % 4
        f == (b + 8) \div 25
        g == (b - f + 1) \div 3
        h == (19 * a + b - d - g + 15) % 30
        i == c \div 4
        k == c % 4
        l == (32 + 2 * e + 2 * i - h - k) % 7
        m == (a + 11 * h + 22 * l) \div 451
        month == (h + l - 7 * m + 114) \div 31
        day == 1 + ((h + l - 7 * m + 113) % 31)
    IN  date(year, month, day)

_easter_date(year) ==
    LET a == year % 19
        b == year \div 100
        c == year % 100
        d == b \div 4
        e == b % 4
        f == (b + 8) \div 25
        g == (b - f + 1) \div 3
        h == (19 * a + b - d - g + 15) % 30
        i == c \div 4
        k == c % 4
        l == (32 + 2 * e + 2 * i - h - k) % 7
        m == (a + 11 * h + 22 * l) \div 451
        month == (h + l - 7 * m + 114) \div 31
        day == 1 + ((h + l - 7 * m + 114) % 31)
    IN  date(year, month, day)

FixedHolidays(year) ==
    { date(year, 1, 1), date(year, 4, 25), date(year, 5, 1), date(year, 6, 10),
      date(year, 8, 15), date(year, 10, 5), date(year, 11, 1), date(year, 12, 1),
      date(year, 12, 8), date(year, 12, 25) }

portugal_national_holidays(year) ==
    LET easter == _easter_date(year)
        good_friday == PlusDays(easter, -2)
        corpus_christi == PlusDays(easter, 60)
        movable == {good_friday, corpus_christi}
    IN  FixedHolidays(year) \cup movable

get_holidays(years) == UNION { portugal_national_holidays(y) : y \in years }

(***************************************************************************)
(* Text forms exchanged with the bookings table (src/app.py:92-134)        *)
(***************************************************************************)
\* d.isoformat()
isoformat(d) == <<d.year, d.month, d.day>>

\* date.fromisoformat(txt)
fromisoformat(txt) == date(txt[1], txt[2], txt[3])

\* t.strftime("%H:%M:%S")
strftime_HMS(t) == <<t \div 60, t % 60, 0>>

\* t.strftime("%H:%M")
strftime_HM(t) == <<t \div 60, t % 60>>

\* datetime.strptime(txt, "%H:%M").time()
strptime_HM(txt) == time(txt[1], txt[2])

\* _parse_time on the table's "HH:MM:SS" text: the seconds field is parsed
\* into the time object; the program only writes 00 there.
_parse_time(tval) == time(tval[1], tval[2])

\* (datetime.combine(d, t) + timedelta(minutes=n)).time(): the date part is
\* dropped, so the time of day wraps at midnight
PlusMinutes(t, n) == (t + n) % 1440

(***************************************************************************)
(* Window policy, slot grid, overlap and capacity (src/app.py:188-237)     *)
(***************************************************************************)
is_weekend(d) == weekday(d) >= 5

allowed_windows_for_date(d, holidays) ==
    IF is_weekend(d) \/ d \in holidays THEN WEEKEND_WINDOWS ELSE WEEKDAY_WINDOWS

RECURSIVE SlotLoop(_, _, _, _)
SlotLoop(tdt, enddt, delta, slots) ==
    IF tdt <= enddt - delta
    THEN SlotLoop(tdt + delta, enddt, delta, Append(slots, tdt % 1440))
    ELSE slots

\* faulty variant of generate_slots: a slot may start on the window end
generate_slots_inclusive(start_t, end_t, step_min) ==
    SlotLoop(start_t, end_t + step_min, step_min, << >>)

generate_slots(start_t, end_t, step_min) ==
    SlotLoop(start_t, end_t, step_min, << >>)

\* faulty variant of overlaps: closed intervals, touching counts as overlap
overlaps_closed(a_start, a_end, b_start, b_end) ==
    (a_start <= b_end) /\ (a_end >= b_start)

\* faulty variant of overlaps: only the candidate's start is tested
overlaps_startonly(a_start, a_end, b_start, b_end) ==
    (a_start < b_end) /\ (a_start >= b_start)

overlaps(a_start, a_end, b_start, b_end) ==
    (a_start < b_end) /\ (a_end > b_start)

RECURSIVE UsedLoop(_, _, _, _)
UsedLoop(existing, i, new_start, new_end) ==
    IF i > Len(existing) THEN 0
    ELSE (IF overlaps(new_start, new_end, existing[i].start_time, existing[i].end_time)
          THEN existing[i].party_size ELSE 0)
         + UsedLoop(existing, i + 1, new_start, new_end)

Max(a, b) == IF a >= b THEN a ELSE b

capacity_remaining(existing, new_start, new_end) ==
    LET used == UsedLoop(existing, 1, new_start, new_end)
    IN  Max(0, PARTY_CAPACITY - used)

(***************************************************************************)
(* Bounds of the model                                                     *)
(***************************************************************************)
FirstYear == 1900

LastYear == 2100

MaxWindowQuarters == 14

MaxStepFives == 12

MaxCapSlots == 3

MaxExisting == 3

(***************************************************************************)
(* State outside the function under exercise                               *)
(***************************************************************************)
Sessions == {1, 2}

\* widget values of a session that has not rendered the form yet
IdleSession ==
    [pc |-> "idle", sel_date |-> date(1, 1, 1), duration |-> DEFAULT_DURATION,
     party_size |-> 1, start_choice |-> <<0, 0>>, exc |-> [kind |-> "none", msg |-> << >>]]

NoHCall == [year |-> 0, done |-> FALSE, hol |-> {}]

NoSCall == [start_t |-> 0, end_t |-> 0, step_min |-> 1, done |-> FALSE, slots |-> << >>]

NoCCall == [existing |-> << >>, new_start |-> 0, new_end |-> 0, done |-> FALSE, rem |-> 0]

StoreIdle == bookings = {} /\ sess = [s \in Sessions |-> IdleSession]

(***************************************************************************)
(* Holiday calendar exercised on its own: one call per year of the range   *)
(***************************************************************************)
HolidayYears == FirstYear..LastYear

InitHolidays ==
    /\ StoreIdle
    /\ hcall \in [year : HolidayYears, done : {FALSE}, hol : {{}}]
    /\ scall = NoSCall
    /\ ccall = NoCCall

CallHolidays ==
    /\ ~hcall.done
    /\ hcall' = [hcall EXCEPT !.done = TRUE,
                              !.hol = portugal_national_holidays(hcall.year)]
    /\ UNCHANGED <<bookings, sess, scall, ccall>>

NextHolidays == CallHolidays

SpecHolidays == InitHolidays /\ [][NextHolidays]_vars

(***************************************************************************)
(* Slot grid exercised on its own                                          *)
(***************************************************************************)
SlotTimes == { time(16, 0) + 15 * k : k \in 0..MaxWindowQuarters }

SlotSteps == { 5 * j : j \in 1..MaxStepFives }

InitSlots ==
    /\ StoreIdle
    /\ hcall = NoHCall
    /\ scall \in [start_t : SlotTimes, end_t : SlotTimes, step_min : SlotSteps,
                  done : {FALSE}, slots : {<< >>}]
    /\ ccall = NoCCall

CallGenerateSlots ==
    /\ ~scall.done
    /\ scall' = [scall EXCEPT !.done = TRUE,
                              !.slots = generate_slots(scall.start_t, scall.end_t,
                                                       scall.step_min)]
    /\ UNCHANGED <<bookings, sess, hcall, ccall>>

NextSlots == CallGenerateSlots

SpecSlots == InitSlots /\ [][NextSlots]_vars

(***************************************************************************)
(* Capacity accounting exercised on its own                                *)
(***************************************************************************)
PartyOptions == {1, 2}

CapTimes == { time(16, 30) + SLOT_STEP_MIN * k : k \in 0..MaxCapSlots }

CapRows ==
    { r \in [start_time : CapTimes, end_time : CapTimes, party_size : PartyOptions] :
        r.start_time < r.end_time }

CapLists == UNION { [1..n -> CapRows] : n \in 0..MaxExisting }

InitCapacity ==
    /\ StoreIdle
    /\ hcall = NoHCall
    /\ scall = NoSCall
    /\ ccall \in { c \in [existing : CapLists, new_start : CapTimes, new_end : CapTimes,
                          done : {FALSE}, rem : {0}] : c.new_start < c.new_end }

CallCapacityRemaining ==
    /\ ~ccall.done
    /\ ccall' = [ccall EXCEPT !.done = TRUE,
                              !.rem = capacity_remaining(ccall.existing, ccall.new_start,
                                                         ccall.new_end)]
    /\ UNCHANGED <<bookings, sess, hcall, scall>>

NextCapacity == CallCapacityRemaining

SpecCapacity == InitCapacity /\ [][NextCapacity]_vars

(***************************************************************************)
(* The bookings table and the booking form (src/app.py:105-146, 267-389)   *)
(*                                                                         *)
(* A table row keeps the columns the scheduling logic reads: id,           *)
(* visit_date, start_time, end_time, party_size (visitor_name and phone    *)
(* are carried through unchanged and decide nothing).                      *)
(***************************************************************************)
MaxBookings == 2

MaxRaceBookings == 3

MaxFormBookings == 1

\* datetime.now(TIMEZONE).date() of the runs modelled
Today == date(2026, 11, 3)

\* holidays = get_holidays([today.year - 1, today.year, today.year + 1])
FormHolidays == get_holidays({Today.year - 1, Today.year, Today.year + 1})

\* options of the "Duração (min)" select box
DurationOptions == {15, 20, 30, 45, 60}

\* ORDER BY start_time of the select; rows with equal start_time come in id
\* order here (the sum computed from the list does not depend on the order)
RowBefore(r1, r2) ==
    \/ _parse_time(r1.start_time) < _parse_time(r2.start_time)
    \/ _parse_time(r1.start_time) = _parse_time(r2.start_time) /\ r1.id <= r2.id

\* one row of the select as the dict fetch_day_bookings builds (lines 113-122)
RowDict(r) ==
    [id |-> r.id,
     visit_date |-> fromisoformat(r.visit_date),
     start_time |-> _parse_time(r.start_time),
     end_time |-> _parse_time(r.end_time),
     party_size |-> r.party_size]

RECURSIVE OrderRows(_)
OrderRows(S) ==
    IF S = {} THEN << >>
    ELSE LET r == CHOOSE x \in S : \A y \in S : RowBefore(x, y)
         IN  <<RowDict(r)>> \o OrderRows(S \ {r})

fetch_day_bookings(tbl, d) == OrderRows({ r \in tbl : r.visit_date = isoformat(d) })

\* faulty variant of the line-335 test: the candidate end is not compared
FitsWindow_any(end_candidate, w_end) == TRUE

\* line 335: the candidate end must not pass the window end
FitsWindow(end_candidate, w_end) == end_candidate <= w_end

\* line 338: the slot is offered for the chosen party size
Offered(rem, psize) == rem >= psize /\ rem > 0

\* lines 332-343: the start times offered in the "Hora de início" select box,
\* as their "HH:MM" values, in window and grid order
RECURSIVE WindowOptions(_, _, _, _, _, _)
WindowOptions(slots, i, w_end, day_bookings, duration, psize) ==
    IF i > Len(slots) THEN << >>
    ELSE LET s == slots[i]
             end_candidate == PlusMinutes(s, duration)
             keep == /\ FitsWindow(end_candidate, w_end)
                     /\ Offered(capacity_remaining(day_bookings, s, end_candidate), psize)
         IN  (IF keep THEN <<strftime_HM(s)>> ELSE << >>)
             \o WindowOptions(slots, i + 1, w_end, day_bookings, duration, psize)

RECURSIVE option_pairs(_, _, _, _, _)
option_pairs(windows, j, day_bookings, duration, psize) ==
    IF j > Len(windows) THEN << >>
    ELSE WindowOptions(generate_slots(windows[j][1], windows[j][2], SLOT_STEP_MIN), 1,
                       windows[j][2], day_bookings, duration, psize)
         \o option_pairs(windows, j + 1, day_bookings, duration, psize)

\* faulty variant of the double check: only a full slot is turned away
CapacityInsufficient_fullonly(latest, s, e, party_size) ==
    capacity_remaining(latest, s, e) <= 0

\* line 377: the double check of capacity at confirmation
CapacityInsufficient(latest, s, e, party_size) ==
    capacity_remaining(latest, s, e) < party_size

\* Exceptions the table client can raise on insert: the text of the message
\* as its words, and whether the table refused the row for a uniqueness /
\* conflict reason
NoException == [kind |-> "none", msg |-> << >>]

StoreExceptions ==
    { [kind |-> "conflict",
       msg |-> <<"Duplicate", "key", "value", "violates", "unique", "constraint">>],
      [kind |-> "conflict", msg |-> <<"409", "Conflict">>],
      [kind |-> "other", msg |-> <<"Connection", "timed", "out">>] }

\* faulty variant of lower: the message is matched without lower-casing
lower_keep(w) == w

\* str(e).lower(), word by word
lower(w) ==
    CASE w = "Duplicate" -> "duplicate"
      [] w = "Conflict" -> "conflict"
      [] w = "Connection" -> "connection"
      [] OTHER -> w

\* line 140: "duplicate" in msg or "unique" in msg or "conflict" in msg
IsConflictMessage(msg) ==
    \E i \in 1..Len(msg) : lower(msg[i]) \in {"duplicate", "unique", "conflict"}

\* st.date_input(min_value=today): the dates a run may select
Selectable(d) == DateLeq(Today, d)

\* a run ends (st.rerun(), return, st.stop() or a raised exception): what is
\* left of it is its outcome; the next run reads its widgets anew
Ended(outcome, ex) == [IdleSession EXCEPT !.pc = outcome, !.exc = ex]

(* One run of booking_form up to the widgets (lines 270-367): the date,     *)
(* duration and party size are read, the day's bookings fetched, and a      *)
(* start time is selected among the offered ones.                           *)
Render(s, Dates, Durations, Starts, Parties) ==
    /\ sess[s].pc # "checked"
    /\ \E sel_date \in { d \in Dates : Selectable(d) } :
         LET windows == allowed_windows_for_date(sel_date, FormHolidays)
         IN  IF windows = << >>
             THEN sess' = [sess EXCEPT ![s] = Ended("no_windows", NoException)]
             ELSE \E duration \in Durations, party_size \in Parties :
                    \E day_bookings \in {fetch_day_bookings(bookings, sel_date)} :
                    \E opts \in {option_pairs(windows, 1, day_bookings, duration, party_size)} :
                        IF opts = << >>
                        THEN sess' = [sess EXCEPT ![s] = Ended("no_options", NoException)]
                        ELSE \E k \in { i \in 1..Len(opts) : strptime_HM(opts[i]) \in Starts } :
                               sess' = [sess EXCEPT ![s] =
                                          [pc |-> "form", sel_date |-> sel_date,
                                           duration |-> duration, party_size |-> party_size,
                                           start_choice |-> opts[k],
                                           exc |-> NoException]]
    /\ UNCHANGED <<bookings, hcall, scall, ccall>>

\* the session after the button press up to the capacity double check
\* (lines 369-379)
AfterCheck(st, nameEmpty, latest) ==
    LET t == strptime_HM(st.start_choice)
        e == PlusMinutes(t, st.duration)
    IN  IF nameEmpty THEN Ended("name_error", NoException)
        ELSE IF CapacityInsufficient(latest, t, e, st.party_size)
             THEN Ended("full", NoException)
             ELSE [st EXCEPT !.pc = "checked"]

Confirm(s) ==
    /\ sess[s].pc = "form"
    /\ \E nameEmpty \in BOOLEAN :
       \E latest \in {fetch_day_bookings(bookings, sess[s].sel_date)} :
         sess' = [sess EXCEPT ![s] = AfterCheck(sess[s], nameEmpty, latest)]
    /\ UNCHANGED <<bookings, hcall, scall, ccall>>

\* the id the table gives the next row (any id not in use names it)
NewId == CHOOSE i \in 1..(Cardinality(bookings) + 1) : \A r \in bookings : r.id # i

\* insert_booking's payload (lines 128-135)
Payload(st) ==
    LET t == strptime_HM(st.start_choice)
        e == PlusMinutes(t, st.duration)
    IN  [id |-> NewId,
         visit_date |-> isoformat(st.sel_date),
         start_time |-> strftime_HMS(t),
         end_time |-> strftime_HMS(e),
         party_size |-> st.party_size]

\* the except clause of insert_booking and of the form (lines 138-142,
\* 382-384): the outcome of a raised exception
Raised(ex) == IF IsConflictMessage(ex.msg) THEN "occupied" ELSE "storage_error"

\* insert_booking and the lines after it (lines 136-142, 380-389) for a
\* session st that passed the double check: the table accepts the row, or
\* the client raises
InsertFrom(s, st, cap) ==
    /\ \/ /\ Cardinality(bookings) < cap
          /\ bookings' = bookings \cup {Payload(st)}
          /\ sess' = [sess EXCEPT ![s] = Ended("success", NoException)]
       \/ /\ \E ex \in StoreExceptions :
               sess' = [sess EXCEPT ![s] = Ended(Raised(ex), ex)]
          /\ UNCHANGED bookings
    /\ UNCHANGED <<hcall, scall, ccall>>

Insert(s, cap) ==
    /\ sess[s].pc = "checked"
    /\ InsertFrom(s, sess[s], cap)

\* the management panel's "Apagar" button (lines 473-476, 145-146)
delete_booking(booking_id) ==
    /\ \E r \in bookings : r.id = booking_id
    /\ bookings' = { r \in bookings : r.id # booking_id }
    /\ UNCHANGED <<sess, hcall, scall, ccall>>

Init ==
    /\ StoreIdle
    /\ hcall = NoHCall
    /\ scall = NoSCall
    /\ ccall = NoCCall

\* a working day, a Saturday, a holiday of the current year, and a holiday
\* more than one year ahead that is a Monday
WorkingDay == date(2026, 11, 4)

FormDates == { WorkingDay, date(2026, 11, 7), date(2026, 12, 8), date(2028, 12, 25) }

(* Concurrent sessions on one working day *)
RaceDurations == {30, 60}

RaceStarts == { time(16, 30), time(17, 0) }

Next ==
    \/ \E s \in Sessions : Render(s, {WorkingDay}, RaceDurations, RaceStarts, PartyOptions)
    \/ \E s \in Sessions : Confirm(s)
    \/ \E s \in Sessions : Insert(s, MaxBookings)
    \/ \E id \in 1..MaxBookings : delete_booking(id)

Spec == Init /\ [][Next]_vars

(* One session over every kind of date, every duration, and start times at *)
(* both ends of the window                                                 *)
FormSessions == {1}

FormStarts == { time(16, 30), time(20, 0), time(20, 30) }

FormParties == {1}

NextForm ==
    \/ \E s \in FormSessions :
         Render(s, FormDates, DurationOptions, FormStarts, FormParties)
    \/ \E s \in FormSessions : Confirm(s)
    \/ \E s \in FormSessions : Insert(s, MaxFormBookings)
    \/ \E id \in 1..MaxFormBookings : delete_booking(id)

SpecForm == Init /\ [][NextForm]_vars

(* Serialized confirmations: the fresh read, the double check and the      *)
(* insert of one confirmation happen with no other session's step between  *)
(* them; renders (and so the lists users choose from) and deletions        *)
(* interleave freely.                                                      *)
ConfirmSerial(s) ==
    /\ sess[s].pc = "form"
    /\ \E nameEmpty \in BOOLEAN :
       \E latest \in {fetch_day_bookings(bookings, sess[s].sel_date)} :
       \E mid \in {AfterCheck(sess[s], nameEmpty, latest)} :
         IF mid.pc = "checked"
         THEN InsertFrom(s, mid, MaxBookings)
         ELSE /\ sess' = [sess EXCEPT ![s] = mid]
              /\ UNCHANGED <<bookings, hcall, scall, ccall>>

NextSerial ==
    \/ \E s \in Sessions : Render(s, {WorkingDay}, RaceDurations, RaceStarts, PartyOptions)
    \/ \E s \in Sessions : ConfirmSerial(s)
    \/ \E id \in 1..MaxBookings : delete_booking(id)

SpecSerial == Init /\ [][NextSerial]_vars

(* Two sessions that have both been offered, and have selected, the same   *)
(* interval of the same day for one person while exactly one unit of       *)
(* capacity remains for it, and now confirm                                *)
RaceRow(t, duration) ==
    [id |-> 1, visit_date |-> isoformat(WorkingDay), start_time |-> strftime_HMS(t),
     end_time |-> strftime_HMS(PlusMinutes(t, duration)), party_size |-> 1]

RaceForm(t, duration) ==
    [pc |-> "form", sel_date |-> WorkingDay, duration |-> duration, party_size |-> 1,
     start_choice |-> strftime_HM(t), exc |-> NoException]

InitRace ==
    /\ \E t0 \in RaceStarts, d0 \in RaceDurations, t \in RaceStarts, d \in RaceDurations :
         /\ bookings = {RaceRow(t0, d0)}
         /\ capacity_remaining(fetch_day_bookings(bookings, WorkingDay),
                               t, PlusMinutes(t, d)) = 1
         /\ sess = [s \in Sessions |-> RaceForm(t, d)]
    /\ hcall = NoHCall
    /\ scall = NoSCall
    /\ ccall = NoCCall

NextRace ==
    \/ \E s \in Sessions : Confirm(s)
    \/ \E s \in Sessions : Insert(s, MaxRaceBookings)

SpecRace == InitRace /\ [][NextRace]_vars

(***************************************************************************)
(* C4 -- holiday calendar                                                  *)
(***************************************************************************)
EasterOf(y) == _easter_date(y)

\* C4 as stated: for every year of 1900..2100 the computed holiday set has
\* exactly 12 distinct dates (10 fixed, Good Friday, Easter + 60 days).
C4_AlwaysTwelve ==
    hcall.done => Cardinality(hcall.hol) = 12

\* C4 amended: the set is the 10 fixed dates together with Good Friday (the
\* Friday two days before Easter Sunday, Easter lying in 22 March..25 April)
\* and the date 60 days after Easter; it has 12 distinct dates unless
\* Easter + 60 days is 10 June (Easter on 11 April), where it has 11.
C4_HolidaySet ==
    hcall.done =>
        LET y == hcall.year
            e == EasterOf(y)
            gf == { d \in hcall.hol : toordinal(d) = toordinal(e) - 2 }
            cc == { d \in hcall.hol : toordinal(d) = toordinal(e) + 60 }
        IN  /\ weekday(e) = 6
            /\ DateLeq(date(y, 3, 22), e) /\ DateLeq(e, date(y, 4, 25))
            /\ Cardinality(gf) = 1 /\ Cardinality(cc) = 1
            /\ \A d \in gf : weekday(d) = 4
            /\ hcall.hol = FixedHolidays(y) \cup gf \cup cc
            /\ Cardinality(FixedHolidays(y)) = 10
            /\ gf \cap FixedHolidays(y) = {}
            /\ Cardinality(hcall.hol) = (IF e = date(y, 4, 11) THEN 11 ELSE 12)
            /\ (e = date(y, 4, 11)) = (date(y, 6, 10) \in cc)

\* a year where Easter + 60 days coincides with the fixed holiday of 10 June
C4_Witness ==
    /\ hcall.done
    /\ hcall.year = 2004
    /\ Cardinality(hcall.hol) = 11
    /\ EasterOf(2004) = date(2004, 4, 11)

(***************************************************************************)
(* C7 -- slot grid                                                         *)
(***************************************************************************)
\* number of grid points t = start + k*step, k >= 0, with t + step <= end
GridCount(start_t, end_t, step_min) ==
    Cardinality({ k \in 0..((24 * 60) \div step_min) :
                    start_t + k * step_min + step_min <= end_t })

\* C7: generate_slots returns exactly the ascending grid start, start+step,
\* ... of all t with t >= start and t + step <= end (empty when start + step
\* > end); 16:30-19:30 with step 30 gives 16:30, 17:00, ..., 19:00.
C7_SlotGrid ==
    scall.done =>
        /\ Len(scall.slots) = GridCount(scall.start_t, scall.end_t, scall.step_min)
        /\ \A i \in 1..Len(scall.slots) :
              /\ scall.slots[i] = scall.start_t + (i - 1) * scall.step_min
              /\ scall.slots[i] >= scall.start_t
              /\ scall.slots[i] + scall.step_min <= scall.end_t
        /\ (scall.start_t + scall.step_min > scall.end_t => scall.slots = << >>)
        /\ (/\ scall.start_t = time(16, 30)
            /\ scall.end_t = time(19, 30)
            /\ scall.step_min = 30
            => scall.slots = <<time(16, 30), time(17, 0), time(17, 30),
                               time(18, 0), time(18, 30), time(19, 0)>>)

\* the scenario window has been gridded, its last slot ending on the window end
C7_Witness ==
    /\ scall.done
    /\ scall.start_t = time(16, 30) /\ scall.end_t = time(19, 30)
    /\ scall.step_min = 30
    /\ Len(scall.slots) = 6
    /\ scall.slots[6] + scall.step_min = scall.end_t

(***************************************************************************)
(* C9 -- capacity accounting                                               *)
(***************************************************************************)
\* list positions whose booking shares an instant with [new_start, new_end)
OverlapIdx(c) ==
    { i \in 1..Len(c.existing) :
        c.new_start < c.existing[i].end_time /\ c.new_end > c.existing[i].start_time }

RECURSIVE PartySum(_, _)
PartySum(existing, idx) ==
    IF idx = {} THEN 0
    ELSE LET i == CHOOSE j \in idx : TRUE
         IN  existing[i].party_size + PartySum(existing, idx \ {i})

\* C9: capacity_remaining is max(0, PARTY_CAPACITY - S), S the party sizes of
\* exactly the bookings overlapping the candidate as half-open intervals; it
\* is PARTY_CAPACITY when none overlaps (also for the empty list) and never
\* negative.
C9_CapacityRemaining ==
    ccall.done =>
        LET S == PartySum(ccall.existing, OverlapIdx(ccall))
        IN  /\ ccall.rem = (IF PARTY_CAPACITY - S > 0 THEN PARTY_CAPACITY - S ELSE 0)
            /\ ccall.rem >= 0
            /\ (OverlapIdx(ccall) = {} => ccall.rem = PARTY_CAPACITY)

\* a list holding a booking that only touches the candidate at an endpoint
\* and one that overlaps it
C9_Witness ==
    /\ ccall.done
    /\ \E i \in 1..Len(ccall.existing) : ccall.existing[i].end_time = ccall.new_start
    /\ \E i \in OverlapIdx(ccall) : ccall.existing[i].party_size = 1
    /\ ccall.rem = 1

(***************************************************************************)
(* Claims about the bookings table                                         *)
(***************************************************************************)
RECURSIVE SumParty(_)
SumParty(S) ==
    IF S = {} THEN 0
    ELSE LET r == CHOOSE x \in S : TRUE IN r.party_size + SumParty(S \ {r})

\* rows of the table on the day with text d whose [start, end) holds instant t
RowsAt(d, t) ==
    { r \in bookings : /\ r.visit_date = d
                       /\ time(r.start_time[1], r.start_time[2]) <= t
                       /\ t < time(r.end_time[1], r.end_time[2]) }

\* instants examined: every five minutes of the day and every row's start
\* (the load of a day only rises at the start of a row)
Instants ==
    { 5 * k : k \in 0..287 } \cup { time(r.start_time[1], r.start_time[2]) : r \in bookings }

LoadRespected ==
    \A d \in { r.visit_date : r \in bookings } :
       \A t \in Instants : SumParty(RowsAt(d, t)) <= PARTY_CAPACITY

\* C1: under any interleaving of concurrent confirmations and deletions, at
\* every instant of every date the party sizes of the persisted bookings
\* whose interval holds that instant sum to at most PARTY_CAPACITY.
C1_CapacityNeverExceeded == LoadRespected

\* C2: two sessions confirming the same interval for one person each while
\* one unit remains, the table accepting every row it is sent: exactly one
\* ends in success with its booking persisted, the other ends with the
\* slot-full / slot-occupied error and persists nothing.
C2_ExactlyOneSucceeds ==
    (\A s \in Sessions : /\ sess[s].pc \in {"success", "full", "occupied"}
                         /\ sess[s].exc = NoException)
    => /\ Cardinality({ s \in Sessions : sess[s].pc = "success" }) = 1
       /\ Cardinality({ s \in Sessions : sess[s].pc \in {"full", "occupied"} }) = 1
       /\ Cardinality(bookings) = 2

\* C3: no persisted booking lies on a Saturday, a Sunday, or a national
\* holiday of its own year.
C3_NoWeekendOrHolidayBooking ==
    \A r \in bookings :
       LET d == date(r.visit_date[1], r.visit_date[2], r.visit_date[3])
       IN  /\ weekday(d) < 5
           /\ d \notin portugal_national_holidays(d.year)

\* table-side remaining capacity for [t, e) on date d, from the raw rows
RemainingInTable(d, t, e) ==
    LET hit == { r \in bookings : /\ r.visit_date = <<d.year, d.month, d.day>>
                                  /\ t < time(r.end_time[1], r.end_time[2])
                                  /\ e > time(r.start_time[1], r.start_time[2]) }
    IN  PARTY_CAPACITY - SumParty(hit)

\* C5: a confirmation whose fresh read leaves less capacity for the
\* requested interval than the requested party size ends with the capacity
\* error, never reaches insert_booking, and leaves the table unchanged.
C5_FailFast ==
    [][ \A s \in Sessions :
          (sess[s].pc = "form" /\ sess'[s].pc \in {"full", "checked"})
          => LET st == sess[s]
                 t == time(st.start_choice[1], st.start_choice[2])
                 e == t + st.duration
             IN  RemainingInTable(st.sel_date, t, e) < st.party_size
                 => /\ sess'[s].pc = "full"
                    /\ bookings' = bookings ]_vars

\* a session was turned away by the double check although the slot was not
\* full: one place is left and it asked for two
C5_Witness ==
    \E s \in Sessions :
       /\ sess[s].pc = "full"
       /\ \E r \in bookings : r.party_size = 1 /\ bookings = {r}

C8_InsideWindow ==
    \A r \in bookings :
       LET d == date(r.visit_date[1], r.visit_date[2], r.visit_date[3])
           st == time(r.start_time[1], r.start_time[2])
           en == time(r.end_time[1], r.end_time[2])
           ws == allowed_windows_for_date(d, FormHolidays)
       IN  /\ st < en
           /\ (en - st) \in DurationOptions
           /\ \E j \in 1..Len(ws) : ws[j][1] <= st /\ en <= ws[j][2]

\* a booking of the longest duration ending exactly on the window end
C8_Witness ==
    \E r \in bookings :
       /\ r.start_time = <<20, 0, 0>>
       /\ r.end_time = <<21, 0, 0>>

\* C10: with serialized confirmations, stale slot lists and deletions at any
\* time, and a table that checks nothing itself, the per-instant sum of party
\* sizes of each date's persisted bookings stays at most PARTY_CAPACITY.
C10_SerialCapacity ==
    /\ LoadRespected
    /\ \A r \in bookings : r.party_size \in PartyOptions

\* the table is at capacity through two bookings and a confirmation made
\* from a stale list was turned away
C10_Witness ==
    /\ Cardinality(bookings) = 2
    /\ \E t \in Instants : SumParty(RowsAt(isoformat(WorkingDay), t)) = PARTY_CAPACITY
    /\ \E s \in Sessions : sess[s].pc = "full"

====
